---------------------------- MODULE Spec2Model ----------------------------
(***************************************************************************)
(* Client-side orchestration of the math worksheet generator: the Home     *)
(* component of src/src/app/layout.tsx (form validation, generate, upload, *)
(* assemble, export handlers) over the API functions of src/src/lib/api.ts.*)
(*                                                                         *)
(* Every async handler is cut at its await points: one action for the      *)
(* synchronous prefix up to the first fetch, one action per response.      *)
(* The backend is the environment: it answers every request either with a *)
(* success payload or with a non-success status / network error.           *)
(***************************************************************************)
EXTENDS Integers, Sequences, FiniteSets, Bags, TLC

VARIABLES
    problems,     \* useState<Problem[]>([])                   layout.tsx:82
    loading,      \* useState(false)                           layout.tsx:83
    pool,         \* useState<Problem[]>([])                   layout.tsx:84
    poolEval,     \* useState<Evaluation | null>(null)         layout.tsx:85
    examEval,     \* useState<Evaluation | null>(null)         layout.tsx:86
    tot,          \* useState(20)                              layout.tsx:87
    mcq,          \* useState(10)                              layout.tsx:88
    word,         \* useState(0)                               layout.tsx:89
    mode,         \* useState<Mode>("easy_to_hard")            layout.tsx:90
    cfg,          \* watch(): the current values of the form   layout.tsx:115
    downloading,  \* useState("none")                          layout.tsx:195
    ops,          \* generate/upload/assemble handlers suspended at an await
    exports,      \* handleExport invocations suspended at await exportPDF
    urls,         \* object URLs created and not revoked          api.ts:26
    event         \* what the last handler step did: request issued, alert, file

vars == <<problems, loading, pool, poolEval, examEval, tot, mcq, word, mode,
          cfg, downloading, ops, exports, urls, event>>

data == <<problems, pool, poolEval, examEval>>
asmInputs == <<tot, mcq, word, mode>>

-----------------------------------------------------------------------------
(* Bounds of the model *)

\* Problem ids the backend draws its answers from.
MaxProblemId == 1
\* Generate/upload/assemble handlers suspended at the same time.
MaxInFlight == 2
\* handleExport invocations suspended at the same time (the gate keeps it at 1).
MaxExports == 2
\* Object URLs left unrevoked that the model counts.
MaxUrls == 2

-----------------------------------------------------------------------------
(* JavaScript numbers of the form: an integer or NaN (an empty number      *)
(* input read with valueAsNumber is NaN).                                   *)

Num(n) == [nan |-> FALSE, n |-> n]
NaN == [nan |-> TRUE, n |-> 0]

\* x >= k and x <= k in JavaScript: false when x is NaN.
Ge(x, k) == ~x.nan /\ x.n >= k
Le(x, k) == ~x.nan /\ x.n <= k
\* x <= y and x - y on two such numbers.
LeNum(x, y) == ~x.nan /\ ~y.nan /\ x.n <= y.n
Minus(x, y) == IF x.nan \/ y.nan THEN NaN ELSE Num(x.n - y.n)

-----------------------------------------------------------------------------
(* Backend payloads *)

\* Problem[] answers of /api/generate, /api/upload, /api/assemble.
ProblemSets == {<<>>} \cup {<<i>> : i \in 1..MaxProblemId}

\* Evaluation | null.  The Evaluation the backend computes for a Problem[]
\* is identified by the Problem[] that was submitted to /api/evaluate.
Null == [null |-> TRUE, of |-> <<>>]
EvaluationOf(ps) == [null |-> FALSE, of |-> ps]

\* Body text of a response with a non-success status.
ErrorTexts == {"backend error"}

\* How a call ends without a result: fetch rejects with a TypeError (no
\* response), the response has a non-success status and `text` as its body,
\* or the DOM code that saves the blob throws.
NoResponse == [type |-> "none", text |-> ""]
NetworkError == [type |-> "network", text |-> "Failed to fetch"]
StatusError(text) == [type |-> "status", text |-> text]
SaveError == [type |-> "dom", text |-> "click failed"]
Failures == {NetworkError} \cup {StatusError(t) : t \in ErrorTexts}

\* Mutant of ThrownMessage: the Error carries the status line, not the body.
MessageFromStatusLine(f) ==
    IF f.type = "status" THEN "Internal Server Error" ELSE f.text

\* if (!res.ok) throw new Error(await res.text()): the message of the Error
\* an API function throws; a rejected fetch throws its own TypeError.
ThrownMessage(f) == f.text

\* What one handler step shows outside the component state: the handler and
\* the step of it that ran, the fetch it issued, the alert it raised, the text
\* it wrote to the console, the file it saved, the failure that the call it
\* was waiting for ended with, and the value that call returned.
NoRequest == [endpoint |-> "none", body |-> <<>>]
Request(endpoint, body) == [endpoint |-> endpoint, body |-> body]
Output(h, step, req, alert, console, saved) ==
    [h |-> h, step |-> step, req |-> req, alert |-> alert,
     console |-> console, saved |-> saved, res |-> NoResponse,
     json |-> <<>>]
Silent(h, step) == Output(h, step, NoRequest, "", "", "")
Failed(out, f) == [out EXCEPT !.res = f]
\* return res.json(): the value the awaited call returned to the handler.
Returned(out, json) == [out EXCEPT !.json = json]


-----------------------------------------------------------------------------
(* The generation form (react-hook-form) and its zod schema *)

\* z.enum(["+", "-", "×", "÷"]), the last two written "x" and "/" here.
Operation == {"+", "-", "x", "/"}
Languages == {"vi", "en"}

\* Number(s) for the strings a <select> value can hold in this model: the
\* empty string is 0, any other text is NaN.
DigitStrings == {"0", "1", "2", "3", "4", "5", "6"}
DigitValue(s) ==
    CASE s = "0" -> 0 [] s = "1" -> 1 [] s = "2" -> 2 [] s = "3" -> 3
      [] s = "4" -> 4 [] s = "5" -> 5 [] s = "6" -> 6
JsNumber(s) ==
    IF s \in DigitStrings THEN Num(DigitValue(s))
    ELSE IF s = "" THEN Num(0) ELSE NaN

\* useForm defaultValues.  grade is held as the <select> option text once
\* the select is registered; the number inputs are registered with
\* valueAsNumber and hold a number or NaN.
defaultValues ==
    [grade |-> "2", operations |-> {"+", "-"}, count |-> Num(20),
     min_value |-> Num(0), max_value |-> Num(100),
     include_word_problems |-> FALSE, include_distractors |-> TRUE,
     seed |-> Num(42), language |-> "vi",
     mcq_count |-> Num(10), word_count |-> Num(0)]

\* register(name, { valueAsNumber: true }): the value the form holds for the
\* text of a number input; the empty input is NaN.
ValueAsNumber(text) == IF text = "" THEN NaN ELSE JsNumber(text)

\* The fields registered with valueAsNumber.
NumericFields ==
    {"count", "min_value", "max_value", "seed", "mcq_count", "word_count"}

\* Mutant of Coerce: a value that is not a number becomes 0.
CoerceWithDefault(v) ==
    [f \in DOMAIN v |->
        IF f = "grade"
        THEN (IF JsNumber(v.grade).nan THEN Num(0) ELSE JsNumber(v.grade))
        ELSE IF f \in NumericFields /\ v[f].nan THEN Num(0) ELSE v[f]]

\* z.coerce.number(): Number(input), applied to the grade text; the other
\* numeric fields are numbers already and Number() leaves them as they are.
Coerce(v) == [v EXCEPT !.grade = JsNumber(v.grade)]

\* The z.object({...}) part of schema, on the coerced values.  z.number()
\* rejects NaN; .optional() only admits undefined, which a registered field
\* never holds.
SchemaObject(c) ==
    /\ Ge(c.grade, 1) /\ Le(c.grade, 5)
    /\ c.operations \subseteq Operation /\ Cardinality(c.operations) >= 1
    /\ Ge(c.count, 5) /\ Le(c.count, 200)
    /\ Ge(c.min_value, 0)
    /\ Ge(c.max_value, 1)
    /\ ~c.seed.nan
    /\ c.language \in Languages
    /\ Ge(c.mcq_count, 0)
    /\ Ge(c.word_count, 0)

\* .refine(v => (v.word_count ?? 0) <= v.count)
RefineWordCount(c) == LeNum(c.word_count, c.count)

\* Mutant of RefineMcqCount: the word problems are not subtracted.
RefineMcqCountOfTotal(c) == LeNum(c.mcq_count, c.count)

\* .refine(v => (v.mcq_count ?? 0) <= v.count - (v.word_count ?? 0))
RefineMcqCount(c) == LeNum(c.mcq_count, Minus(c.count, c.word_count))

\* schema.safeParse(v).success, as zodResolver reports it to handleSubmit.
SchemaAccepts(v) ==
    LET c == Coerce(v)
    IN  SchemaObject(c) /\ RefineWordCount(c) /\ RefineMcqCount(c)


-----------------------------------------------------------------------------
(* Initial state: the useState initial values and the form defaults *)

Init ==
    /\ problems = <<>>
    /\ loading = FALSE
    /\ pool = <<>>
    /\ poolEval = Null
    /\ examEval = Null
    /\ tot = 20
    /\ mcq = 10
    /\ word = 0
    /\ mode = "easy_to_hard"
    /\ cfg = defaultValues
    /\ downloading = "none"
    /\ ops = EmptyBag
    /\ exports = EmptyBag
    /\ urls = 0
    /\ event = Silent("init", "init")

-----------------------------------------------------------------------------
(* Suspended handlers *)

\* `ops` and `exports` are bags: two handlers suspended at the same place
\* with the same local values are two copies of one element.
InFlight == BagCardinality(ops)
ExportsInFlight == BagCardinality(exports)
One(e) == SetToBag({e})

\* A handler suspended at `await <primary call>`.
\* `changed` is history, not a value of the program: whether storing the
\* primary result replaced a different value in the component state.
AtPrimary(kind) ==
    [kind |-> kind, pc |-> "primary", data |-> <<>>, changed |-> FALSE]
\* The same handler suspended at `await evaluateExam(data)`.
AtEvaluate(o, resp, chg) ==
    [o EXCEPT !.pc = "evaluate", !.data = resp, !.changed = chg]

\* Mutant of EvaluateArgument: the evaluate call is given the state variable
\* of the render the handler was created in.
EvaluateStaleState(kind, resp) == IF kind = "upload" THEN pool ELSE problems

\* evaluateExam(data) / evaluateExam(_pool) / evaluateExam(exam): the
\* argument is the local that holds the primary call's result.
EvaluateArgument(kind, resp) == resp

\* Mutant of AfterCatch: the catch block calls the API function again.
RetriedAfterCatch(o) == ops

\* catch { alert(msg) }: the handler ends, the call is not made again.
AfterCatch(o) == ops (-) One(o)

\* Mutant of FinallyLoading: the release sits at the end of the try block and
\* of the primary call's catch, not in a finally.
ReleaseUnlessEvaluateFailed(kind, step) ==
    IF step = "evaluate failed" THEN loading ELSE FALSE

\* Mutant of FinallyLoading: the release sits at the end of the try block and
\* of the evaluate call's handling, not in a finally.
ReleaseUnlessPrimaryFailed(kind, step) ==
    IF step = "primary failed" THEN loading ELSE FALSE

\* finally { setLoading(false) }: the value the handler leaves in `loading`
\* when it ends at `step`.
FinallyLoading(kind, step) == FALSE

\* Mutant of FinallyDownloading: the gate is released after a successful
\* export only.
ReleaseOnSuccessOnly(step) == IF step = "done" THEN "none" ELSE downloading

\* finally { setDownloading("none") }
FinallyDownloading(step) == "none"


-----------------------------------------------------------------------------
(* Form edits *)

\* The values a user types or selects in this model, per registered field.
UiValues(f) ==
    CASE f = "count" -> {Num(20), Num(4)}
      [] f = "word_count" -> {Num(0), Num(25)}

UiFields == {"count", "word_count"}

\* register(f): an input event stores the field's new value.
EditField(f, v) ==
    /\ cfg' = [cfg EXCEPT ![f] = v]
    /\ event' = Silent("form", f)
    /\ UNCHANGED <<data, loading, asmInputs, downloading, ops, exports, urls>>

\* The operation toggle buttons: setValue("operations", next).
ToggleOperation(op) ==
    /\ cfg' = [cfg EXCEPT !.operations =
                  IF op \in cfg.operations THEN cfg.operations \ {op}
                  ELSE cfg.operations \cup {op}]
    /\ event' = Silent("form", "operations")
    /\ UNCHANGED <<data, loading, asmInputs, downloading, ops, exports, urls>>

\* The assembly inputs: setTot / setMcq / setWord(Number(e.target.value)),
\* setMode(e.target.value).
SetTot(v) ==
    /\ tot' = v
    /\ event' = Silent("assembly inputs", "tot")
    /\ UNCHANGED <<data, loading, mcq, word, mode, cfg, downloading, ops, exports, urls>>

SetMcq(v) ==
    /\ mcq' = v
    /\ event' = Silent("assembly inputs", "mcq")
    /\ UNCHANGED <<data, loading, tot, word, mode, cfg, downloading, ops, exports, urls>>

SetWord(v) ==
    /\ word' = v
    /\ event' = Silent("assembly inputs", "word")
    /\ UNCHANGED <<data, loading, tot, mcq, mode, cfg, downloading, ops, exports, urls>>

SetMode(v) ==
    /\ mode' = v
    /\ event' = Silent("assembly inputs", "mode")
    /\ UNCHANGED <<data, loading, tot, mcq, word, cfg, downloading, ops, exports, urls>>

-----------------------------------------------------------------------------
(* Generate: <form onSubmit={handleSubmit(onSubmit)}> *)

\* The submit button is disabled={loading}; a form whose submit button is
\* disabled is not submitted.
SubmitEnabled == ~loading

\* handleSubmit runs the resolver; with errors onSubmit is not called.
SubmitInvalid ==
    /\ SubmitEnabled
    /\ ~SchemaAccepts(cfg)
    /\ event' = Silent("handleSubmit", "invalid")
    /\ UNCHANGED <<data, loading, asmInputs, cfg, downloading, ops, exports, urls>>

\* onSubmit(values) up to `await generateProblems(values)`; values is the
\* output of the schema.
SubmitValid ==
    /\ SubmitEnabled
    /\ SchemaAccepts(cfg)
    /\ InFlight < MaxInFlight
    /\ loading' = TRUE
    /\ ops' = ops (+) One(AtPrimary("generate"))
    /\ event' = Output("generate", "start",
                       Request("/api/generate", Coerce(cfg)), "", "", "")
    /\ UNCHANGED <<data, asmInputs, cfg, downloading, exports, urls>>

-----------------------------------------------------------------------------
(* Upload: <input type="file" onChange=...> *)

\* const f = e.target.files?.[0]; if (!f) return;
UploadNoFile ==
    /\ event' = Silent("upload", "no file")
    /\ UNCHANGED <<data, loading, asmInputs, cfg, downloading, ops, exports, urls>>

\* The handler up to `await uploadQuestions(f)`.
UploadStart ==
    /\ InFlight < MaxInFlight
    /\ loading' = TRUE
    /\ ops' = ops (+) One(AtPrimary("upload"))
    /\ event' = Output("upload", "start", Request("/api/upload", "file"),
                       "", "", "")
    /\ UNCHANGED <<data, asmInputs, cfg, downloading, exports, urls>>

-----------------------------------------------------------------------------
(* Assemble: the button's onClick *)

NoPoolMessage == "Hay upload ngan hang truoc."

\* Mutant of PoolLoaded: the click is not tested.
PoolNotChecked(p) == TRUE

\* if (pool.length === 0) return alert(...): the test that lets the click on.
PoolLoaded(p) == Len(p) # 0

AssembleRejected ==
    /\ ~PoolLoaded(pool)
    /\ event' = Output("assemble", "rejected", NoRequest, NoPoolMessage, "", "")
    /\ UNCHANGED <<data, loading, asmInputs, cfg, downloading, ops, exports, urls>>

AssemblePayload ==
    [pool |-> pool, total_count |-> tot, mcq_count |-> mcq,
     word_count |-> word, mode |-> mode]

\* The handler up to `await assembleExam({...})`.
AssembleStart ==
    /\ PoolLoaded(pool)
    /\ InFlight < MaxInFlight
    /\ loading' = TRUE
    /\ ops' = ops (+) One(AtPrimary("assemble"))
    /\ event' = Output("assemble", "start",
                       Request("/api/assemble", AssemblePayload), "", "", "")
    /\ UNCHANGED <<data, asmInputs, cfg, downloading, exports, urls>>


-----------------------------------------------------------------------------
(* Responses to generate / upload / assemble and to their evaluate call *)

\* Mutant of ProblemsAfterPrimary: generate holds its result back until the
\* evaluation is known.
ProblemsHeldBack(kind, resp) ==
    IF kind = "assemble" THEN resp ELSE problems

\* setProblems(data) / setProblems(exam): `problems` after the primary call
\* of a handler of `kind` returned resp.
ProblemsAfterPrimary(kind, resp) ==
    IF kind \in {"generate", "assemble"} THEN resp ELSE problems

\* Mutant of PoolAfterPrimary: the uploaded questions are added to the pool.
PoolAppended(kind, resp) ==
    IF kind = "upload" THEN pool \o resp ELSE pool

\* setPool(_pool)
PoolAfterPrimary(kind, resp) ==
    IF kind = "upload" THEN resp ELSE pool

\* setExamEval(await evaluateExam(data)): `examEval` after the evaluate call
\* of a handler of `kind` returned eva.
ExamEvalAfterEvaluate(kind, eva) ==
    IF kind \in {"generate", "assemble"} THEN eva ELSE examEval

\* setPoolEval(eva)
PoolEvalAfterEvaluate(kind, eva) ==
    IF kind = "upload" THEN eva ELSE poolEval

\* The primary call returns resp: the handler stores it and goes on to
\* `await evaluateExam(resp)`.
PrimaryOk(o, resp) ==
    /\ BagIn(o, ops) /\ o.pc = "primary"
    /\ problems' = ProblemsAfterPrimary(o.kind, resp)
    /\ pool' = PoolAfterPrimary(o.kind, resp)
    /\ ops' = (ops (-) One(o))
                 (+) One(AtEvaluate(o, EvaluateArgument(o.kind, resp),
                                    <<problems, pool>>' # <<problems, pool>>))
    /\ event' = Returned(Output(o.kind, "primary ok",
                                Request("/api/evaluate",
                                        EvaluateArgument(o.kind, resp)),
                                "", "", ""), resp)
    /\ UNCHANGED <<poolEval, examEval, loading, asmInputs, cfg, downloading,
                   exports, urls>>

\* The primary call throws (non-success status, network error): catch
\* alerts the Error's message, finally releases the busy flag.
PrimaryFail(o, f) ==
    /\ BagIn(o, ops) /\ o.pc = "primary"
    /\ loading' = FinallyLoading(o.kind, "primary failed")
    /\ ops' = AfterCatch(o)
    /\ event' = Failed(Output(o.kind, "primary failed", NoRequest,
                              ThrownMessage(f), "", ""), f)
    /\ UNCHANGED <<data, asmInputs, cfg, downloading, exports, urls>>

\* evaluateExam returns the Evaluation of the Problem[] it was sent.
EvaluateOk(o) ==
    /\ BagIn(o, ops) /\ o.pc = "evaluate"
    /\ examEval' = ExamEvalAfterEvaluate(o.kind, EvaluationOf(o.data))
    /\ poolEval' = PoolEvalAfterEvaluate(o.kind, EvaluationOf(o.data))
    /\ loading' = FinallyLoading(o.kind, "done")
    /\ ops' = ops (-) One(o)
    /\ event' = Returned(Silent(o.kind, "done"), EvaluationOf(o.data))
    /\ UNCHANGED <<problems, pool, asmInputs, cfg, downloading, exports, urls>>

\* evaluateExam throws.
EvaluateFail(o, f) ==
    /\ BagIn(o, ops) /\ o.pc = "evaluate"
    /\ loading' = FinallyLoading(o.kind, "evaluate failed")
    /\ ops' = AfterCatch(o)
    /\ event' = Failed(Output(o.kind, "evaluate failed", NoRequest,
                              ThrownMessage(f), "", ""), f)
    /\ UNCHANGED <<data, asmInputs, cfg, downloading, exports, urls>>

-----------------------------------------------------------------------------
(* Export: handleExport(kind) and exportPDF *)

ExportKinds == {"questions", "answers"}

\* Mutant of ExportGateOpen: the gate is not tested.
ExportGateNotChecked(d) == TRUE

\* Mutant of ExportGateOpen: export waits for the busy flag too.
ExportGateSharedWithLoading(d) == d = "none" /\ ~loading

\* if (downloading !== "none") return;
ExportGateOpen(d) == d = "none"

\* Mutant of FileName: one name for both kinds.
FileNameWithoutKind(kind) == "worksheet.pdf"

\* a.download = kind === "questions" ? ... : ...
FileName(kind) ==
    IF kind = "questions" THEN "worksheet_questions.pdf"
    ELSE "worksheet_answers.pdf"

\* handleExport called with the gate closed returns at once.
ExportIgnored(kind) ==
    /\ ~ExportGateOpen(downloading)
    /\ event' = Silent("handleExport", "ignored")
    /\ UNCHANGED <<data, loading, asmInputs, cfg, downloading, ops, exports, urls>>

\* handleExport up to the fetch of exportPDF(cfg, kind); cfg is watch().
ExportStart(kind) ==
    /\ ExportGateOpen(downloading)
    /\ ExportsInFlight < MaxExports
    /\ downloading' = kind
    /\ exports' = exports (+) One([kind |-> kind])
    /\ event' = Output("handleExport", "start",
                       Request("/api/export/" \o kind, cfg), "", "", "")
    /\ UNCHANGED <<data, loading, asmInputs, cfg, ops, urls>>

\* const url = URL.createObjectURL(blob); ...; a.click(); a.remove();
\* URL.revokeObjectURL(url): the object URLs left unrevoked when exportPDF
\* ends at `step`.  The revoke is the last statement of the function, so it
\* runs only if nothing before it throws.
UrlsAfterExport(step) == IF step = "save failed" THEN urls + 1 ELSE urls

\* The response is ok: the blob is saved under the kind's file name and the
\* object URL is revoked.
ExportOk(x) ==
    /\ BagIn(x, exports)
    /\ downloading' = FinallyDownloading("done")
    /\ exports' = exports (-) One(x)
    /\ urls' = UrlsAfterExport("done")
    /\ event' = Output("handleExport", "done", NoRequest, "", "",
                       FileName(x.kind))
    /\ UNCHANGED <<data, loading, asmInputs, cfg, ops>>

\* exportPDF throws: at the fetch, on a non-success status, or after the
\* object URL is created, while the anchor is attached and clicked.
ExportFailures == Failures \cup {SaveError}

ExportStep(f) ==
    CASE f.type = "network" -> "fetch failed"
      [] f.type = "status" -> "status"
      [] f.type = "dom" -> "save failed"

\* catch (err) { console.error("Export failed:", err) }
ExportFail(x, f) ==
    /\ BagIn(x, exports)
    /\ f.type = "dom" => urls < MaxUrls
    /\ downloading' = FinallyDownloading(ExportStep(f))
    /\ exports' = exports (-) One(x)
    /\ urls' = UrlsAfterExport(ExportStep(f))
    /\ event' = Failed(Output("handleExport", ExportStep(f), NoRequest, "",
                              "Export failed: " \o ThrownMessage(f), ""), f)
    /\ UNCHANGED <<data, loading, asmInputs, cfg, ops>>

-----------------------------------------------------------------------------
(* The component under a user and a backend *)

FormOperations == {"+"}
TotInputs == {20, 10}
ModeInputs == {"easy_to_hard", "balanced"}

UserEdits ==
    \/ \E v \in UiValues("count") : EditField("count", v)
    \/ \E op \in FormOperations : ToggleOperation(op)
    \/ \E v \in TotInputs : SetTot(v)
    \/ \E v \in {10} : SetMcq(v)
    \/ \E v \in {0} : SetWord(v)
    \/ \E v \in ModeInputs : SetMode(v)

Handlers ==
    \/ SubmitInvalid
    \/ SubmitValid
    \/ UploadNoFile
    \/ UploadStart
    \/ AssembleRejected
    \/ AssembleStart
    \/ \E k \in ExportKinds : ExportIgnored(k)
    \/ \E k \in ExportKinds : ExportStart(k)

OpResponses ==
    \/ \E o \in BagToSet(ops) : \E resp \in ProblemSets : PrimaryOk(o, resp)
    \/ \E o \in BagToSet(ops) : \E f \in Failures : PrimaryFail(o, f)
    \/ \E o \in BagToSet(ops) : EvaluateOk(o)
    \/ \E o \in BagToSet(ops) : \E f \in Failures : EvaluateFail(o, f)

ExportResponses ==
    \/ \E x \in BagToSet(exports) : ExportOk(x)
    \/ \E x \in BagToSet(exports) : \E f \in ExportFailures : ExportFail(x, f)

Responses == OpResponses \/ ExportResponses

Next == UserEdits \/ Handlers \/ Responses

Spec == Init /\ [][Next]_vars

\* The generate, upload and assemble handlers and their responses alone: the
\* form keeps its default values and no export runs.
NextOrchestration ==
    \/ SubmitValid
    \/ UploadStart
    \/ AssembleRejected
    \/ AssembleStart
    \/ OpResponses

SpecOrchestration == Init /\ [][NextOrchestration]_vars


\* The generation form and the export buttons: the user edits the form,
\* submits it and exports; nothing is uploaded or assembled.
NextExport ==
    \/ \E f \in UiFields : \E v \in UiValues(f) : EditField(f, v)
    \/ \E op \in FormOperations : ToggleOperation(op)
    \/ SubmitInvalid
    \/ SubmitValid
    \/ OpResponses
    \/ \E k \in ExportKinds : ExportIgnored(k)
    \/ \E k \in ExportKinds : ExportStart(k)
    \/ ExportResponses

SpecExport == Init /\ [][NextExport]_vars

\* fetch settles: every export request is answered or fails.
FairExport == SpecExport /\ WF_vars(ExportResponses)

\* The form's content when it is submitted, over the boundary values of
\* every validated field.
FormInputs ==
    [grade : {"", "0", "1", "5", "6"},
     operations : {{}, {"+", "-"}, {"^"}},
     count : {Num(4), Num(5), Num(200), Num(201), ValueAsNumber("")},
     min_value : {Num(-1), Num(0)},
     max_value : {Num(0), Num(1)},
     include_word_problems : {FALSE},
     include_distractors : {TRUE},
     seed : {Num(42), ValueAsNumber("")},
     language : {"vi", "fr"},
     mcq_count : {Num(-1), Num(0), Num(5), Num(6)},
     word_count : {Num(-1), Num(0), Num(5), Num(6)}]

InitValidation ==
    /\ problems = <<>>
    /\ loading = FALSE
    /\ pool = <<>>
    /\ poolEval = Null
    /\ examEval = Null
    /\ tot = 20
    /\ mcq = 10
    /\ word = 0
    /\ mode = "easy_to_hard"
    /\ cfg \in FormInputs
    /\ downloading = "none"
    /\ ops = EmptyBag
    /\ exports = EmptyBag
    /\ urls = 0
    /\ event = Silent("init", "init")

NextValidation ==
    \/ SubmitInvalid
    \/ SubmitValid
    \/ OpResponses

SpecValidation == InitValidation /\ [][NextValidation]_vars

\* The five API functions under one backend: every handler up to its call
\* and every answer to it, with the form at its default values and one
\* success payload.
CallPayloads == {<<1>>}

NextCalls ==
    \/ SubmitValid
    \/ UploadStart
    \/ AssembleStart
    \/ \E k \in ExportKinds : ExportIgnored(k)
    \/ \E k \in ExportKinds : ExportStart(k)
    \/ \E o \in BagToSet(ops) : \E resp \in CallPayloads : PrimaryOk(o, resp)
    \/ \E o \in BagToSet(ops) : \E f \in Failures : PrimaryFail(o, f)
    \/ \E o \in BagToSet(ops) : EvaluateOk(o)
    \/ \E o \in BagToSet(ops) : \E f \in Failures : EvaluateFail(o, f)
    \/ ExportResponses

SpecCalls == Init /\ [][NextCalls]_vars


-----------------------------------------------------------------------------
(* Properties *)

\* The validity of a configuration as the specification states it, on the
\* numeric values of the fields: grade in [1,5], count in [5,200],
\* min_value >= 0, max_value >= 1, operations a non-empty subset of the four
\* symbols, language vi or en, word_count <= count,
\* mcq_count <= count - word_count.
ConfigInRange(c) ==
    /\ ~c.grade.nan /\ c.grade.n >= 1 /\ c.grade.n <= 5
    /\ ~c.count.nan /\ c.count.n >= 5 /\ c.count.n <= 200
    /\ ~c.min_value.nan /\ c.min_value.n >= 0
    /\ ~c.max_value.nan /\ c.max_value.n >= 1
    /\ c.operations # {} /\ c.operations \subseteq {"+", "-", "x", "/"}
    /\ c.language \in {"vi", "en"}

ConfigValid(c) ==
    /\ ConfigInRange(c)
    /\ ~c.word_count.nan /\ ~c.mcq_count.nan
    /\ c.word_count.n <= c.count.n
    /\ c.mcq_count.n <= c.count.n - c.word_count.n

\* The form is submitted in this step.
Submitted == event'.h \in {"handleSubmit", "generate"}
                /\ event'.step \in {"invalid", "start"}

\* C1: a submission issues POST /api/generate only with a configuration that
\* passes validation; a submission of a configuration that violates any of
\* the conditions issues no request, suspends no handler and leaves the busy
\* flag unset.
C1_ValidatedBeforeGenerate ==
    [][Submitted =>
          /\ event'.req.endpoint = "/api/generate"
                => ConfigValid(event'.req.body)
          /\ ~ConfigValid(Coerce(cfg))
                => /\ event'.req.endpoint = "none"
                   /\ ops' = ops
                   /\ loading = FALSE /\ loading' = FALSE]_vars

\* C1 witness: a configuration with every field in range and
\* word_count <= count, but mcq_count > count - word_count, was submitted
\* and rejected.
C1_Witness ==
    /\ event.h = "handleSubmit" /\ event.step = "invalid"
    /\ ConfigInRange(Coerce(cfg))
    /\ Ge(cfg.word_count, 0) /\ LeNum(cfg.word_count, cfg.count)
    /\ cfg.mcq_count.n > cfg.count.n - cfg.word_count.n
    /\ ~loading /\ InFlight = 0

\* C2: every GenerationConfig sent as a request body, by generate or by
\* export, satisfies the field ranges and the two cross-field invariants.
C2_OnlyValidConfigsSent ==
    /\ event.req.endpoint = "/api/generate" => ConfigValid(event.req.body)
    /\ event.req.endpoint \in {"/api/export/questions", "/api/export/answers"}
          => ConfigValid(Coerce(event.req.body))

\* C3: when a generate or assemble handler has completed successfully,
\* examEval is the Evaluation of the problem set in `problems`; when an upload
\* handler has completed successfully, poolEval is the Evaluation of the pool
\* in `pool`.
C3_PairedAfterSuccess ==
    /\ (event.step = "done" /\ event.h \in {"generate", "assemble"})
          => examEval = EvaluationOf(problems)
    /\ (event.step = "done" /\ event.h = "upload")
          => poolEval = EvaluationOf(pool)

\* C4: in every state a non-null examEval is the Evaluation of the current
\* `problems` and a non-null poolEval is the Evaluation of the current `pool`.
C4_NeverStale ==
    /\ ~examEval.null => examEval = EvaluationOf(problems)
    /\ ~poolEval.null => poolEval = EvaluationOf(pool)

\* handleExport is called in this step.
ExportCalled == event'.h = "handleExport" /\ event'.step \in {"start", "ignored"}

\* C5: handleExport called while downloading is not "none" issues no request,
\* raises no error and changes no state; at most one export request is in
\* flight at any time.
C5_ExportGate ==
    /\ [](ExportsInFlight <= 1)
    /\ [][(ExportCalled /\ downloading # "none") =>
             /\ event'.req.endpoint = "none"
             /\ event'.alert = "" /\ event'.console = ""
             /\ UNCHANGED <<data, loading, asmInputs, cfg, downloading, ops,
                            exports, urls>>]_vars

\* C5 witness: handleExport returned at once while an export was in flight.
C5_Witness ==
    /\ event.h = "handleExport" /\ event.step = "ignored"
    /\ downloading # "none"
    /\ ExportsInFlight = 1

\* C6: an export that set downloading to a kind sets it back to "none" when
\* exportPDF returns or throws, and every export in flight does end.
C6_GateRelease ==
    /\ (downloading # "none") ~> (downloading = "none")
    /\ [][ExportsInFlight' < ExportsInFlight => downloading' = "none"]_vars

\* C6 witness: an export failed while saving the file and the gate is open.
C6_Witness ==
    /\ event.h = "handleExport" /\ event.step = "save failed"
    /\ downloading = "none"

\* C7: a generate, upload or assemble handler that ends, on any path, leaves
\* loading false; loading is false whenever no handler is in flight.
C7_BusyRelease ==
    /\ [](InFlight = 0 => ~loading)
    /\ [][InFlight' < InFlight => ~loading']_vars

\* C7 witness: the last handler in flight ended on a failed evaluate call.
C7_Witness ==
    /\ event.step = "evaluate failed"
    /\ InFlight = 0
    /\ ~loading

\* C8: assemble invoked on an empty pool alerts the precondition message,
\* issues no request and leaves problems, examEval and loading unchanged.
C8_AssemblePrecondition ==
    [][(event'.h = "assemble" /\ event'.step \in {"start", "rejected"}
          /\ Len(pool) = 0) =>
             /\ event'.alert = NoPoolMessage
             /\ event'.req.endpoint = "none"
             /\ UNCHANGED <<problems, examEval, loading, ops>>]_vars

\* C8 witness: assemble was rejected on an empty pool while another handler
\* held the busy flag.
C8_Witness ==
    /\ event.h = "assemble" /\ event.step = "rejected"
    /\ event.alert = NoPoolMessage
    /\ pool = <<>>
    /\ loading /\ InFlight = 1

\* The upload handlers in flight.
UploadsInFlight ==
    LET ups == {o \in BagToSet(ops) : o.kind = "upload"}
    IN  IF ups = {} THEN 0
        ELSE IF Cardinality(ups) = 1 /\ \A o \in ups : CopiesIn(o, ops) = 1
             THEN 1 ELSE 2

\* C9: two uploads never overlap: at most one upload handler is in flight.
C9_UploadsDoNotOverlap == UploadsInFlight <= 1

\* C10: a generate whose evaluate call failed has not replaced the problem
\* set.
C10_DiscardedOnEvaluateFailure ==
    [][(event'.h = "generate" /\ event'.step = "evaluate failed") =>
          \A o \in BagToSet(ops (-) ops') : ~o.changed]_vars

\* C10 amended: generate stores the new problem set as soon as the generate
\* call returns, leaving examEval as it is; a failure of the evaluate call
\* then alerts the error, releases loading and changes neither problems nor
\* examEval.
C10_CommittedBeforeEvaluate ==
    /\ [][(event'.h = "generate" /\ event'.step = "primary ok") =>
             /\ problems' = event'.req.body
             /\ examEval' = examEval]_vars
    /\ [][(event'.h = "generate" /\ event'.step = "evaluate failed") =>
             /\ UNCHANGED <<problems, examEval>>
             /\ event'.alert \in {ThrownMessage(f) : f \in Failures}
             /\ ~loading']_vars

\* C10 witness: the evaluate call of a generate failed and a problem set is
\* in state with no evaluation.
C10_Witness ==
    /\ event.h = "generate" /\ event.step = "evaluate failed"
    /\ problems # <<>>
    /\ examEval.null

\* The handlers of one kind in flight.
HandlersInFlight(kind) ==
    LET same == {o \in BagToSet(ops) : o.kind = kind}
    IN  BagCardinality([o \in same |-> CopiesIn(o, ops)])

\* The handler that ended in this step.
Ended == BagToSet(ops (-) ops')

\* C11: when the evaluate call of a generate, upload or assemble handler
\* fails, the primary result of that handler is in state when the handler
\* ends (problems for generate and assemble, pool for upload) and no
\* evaluation is stored.
C11_PrimaryVisibleAfterEvaluateFailure ==
    [][event'.step = "evaluate failed" =>
          /\ \A o \in Ended :
                /\ o.kind \in {"generate", "assemble"} => problems' = o.data
                /\ o.kind = "upload" => pool' = o.data
          /\ UNCHANGED <<examEval, poolEval>>]_vars

\* C12: a handler whose primary call fails issues no evaluate call and writes
\* none of problems, examEval, pool, poolEval: its start sets loading and
\* nothing else, its end sets loading to false and nothing else.
C12_PrimaryFailureFrame ==
    /\ [][(event'.h \in {"generate", "upload", "assemble"}
             /\ event'.step = "start") =>
             /\ loading'
             /\ UNCHANGED <<data, asmInputs, cfg, downloading, exports, urls>>]_vars
    /\ [][event'.step = "primary failed" =>
             /\ event'.req.endpoint = "none"
             /\ \A o \in Ended : o.pc = "primary"
             /\ InFlight' = InFlight - 1
             /\ ~loading'
             /\ UNCHANGED <<data, asmInputs, cfg, downloading, exports, urls>>]_vars

\* C12 witness: the primary call of a handler failed and left a problem set
\* and its evaluation in place.
C12_Witness ==
    /\ event.step = "primary failed"
    /\ problems # <<>>
    /\ examEval = EvaluationOf(problems)
    /\ ~loading

\* C13: an evaluate request is issued only by the step in which a handler
\* receives the successful answer of its primary call; that step stores the
\* answer (in problems for generate and assemble, in pool for upload) and the
\* request body is the answer.
C13_EvaluateAfterPrimary ==
    [][event'.req.endpoint = "/api/evaluate" =>
          /\ event'.step = "primary ok"
          /\ \E o \in Ended : o.pc = "primary" /\ o.kind = event'.h
          /\ \E n \in BagToSet(ops' (-) ops) :
                /\ n.pc = "evaluate" /\ n.kind = event'.h
                /\ n.data = event'.req.body
          /\ event'.h = "upload" => pool' = event'.req.body
          /\ event'.h \in {"generate", "assemble"}
                => problems' = event'.req.body]_vars

\* C13 witness: assemble stored a new exam over an older one and asked for
\* its evaluation.
C13_Witness ==
    /\ event.h = "assemble" /\ event.step = "primary ok"
    /\ event.req.endpoint = "/api/evaluate"
    /\ event.req.body = problems
    /\ ~examEval.null /\ examEval # EvaluationOf(problems)

\* C14: at most one generate handler and at most one assemble handler is in
\* flight.
C14_NoSameKindOverlap ==
    /\ HandlersInFlight("generate") <= 1
    /\ HandlersInFlight("assemble") <= 1

\* The endpoints of the primary calls and of export.
PrimaryEndpoints == {"/api/generate", "/api/upload", "/api/assemble"}
ExportEndpoints == {"/api/export/questions", "/api/export/answers"}

\* C15: a primary request is issued only by the step that starts a handler,
\* an evaluate request only by the step that moves a handler from its
\* primary call to its evaluate call, an export request only by the step that
\* starts an export; the step in which a call fails issues no request and
\* ends its handler, leaving no other handler changed.
C15_NoRetry ==
    [][/\ event'.req.endpoint \in PrimaryEndpoints =>
             /\ ops' = ops (+) One(AtPrimary(event'.h))
             /\ exports' = exports
       /\ event'.req.endpoint = "/api/evaluate" =>
             /\ \E o \in Ended : o.pc = "primary"
             /\ InFlight' = InFlight
             /\ exports' = exports
       /\ event'.req.endpoint \in ExportEndpoints =>
             /\ ExportsInFlight' = ExportsInFlight + 1
             /\ ops' = ops
       /\ event'.res.type # "none" =>
             /\ event'.req.endpoint = "none"
             /\ ops' \sqsubseteq ops /\ exports' \sqsubseteq exports
             /\ InFlight' + ExportsInFlight'
                   = InFlight + ExportsInFlight - 1]_vars

\* C15 witness: the evaluate call of an assemble failed and nothing is in
\* flight.
C15_Witness ==
    /\ event.h = "assemble" /\ event.step = "evaluate failed"
    /\ event.req.endpoint = "none"
    /\ InFlight = 0 /\ ExportsInFlight = 0

\* C16: the step in which a remote call fails shows a message to the user.
C16_FailuresShown ==
    event.res.type \in {"network", "status"} => event.alert # ""

\* C17: when a call ends on a non-success status, the message that reaches
\* the handler is the response body text, no state is written from the
\* response and, for export, no file is saved.
C17_StatusFailureDetail ==
    [][event'.res.type = "status" =>
          /\ event'.h \in {"generate", "upload", "assemble"}
                => event'.alert = event'.res.text
          /\ event'.h = "handleExport"
                => /\ event'.console = "Export failed: " \o event'.res.text
                   /\ event'.saved = ""
          /\ event'.req.endpoint = "none"
          /\ UNCHANGED data]_vars

\* C17 witness: an export ended on a non-success status with the body text
\* on the console and no file.
C17_Witness ==
    /\ event.h = "handleExport" /\ event.res.type = "status"
    /\ event.res.text \in ErrorTexts
    /\ event.saved = ""

\* C18: an export of a kind sends its request to /api/export/{kind}; when it
\* succeeds it saves one file, worksheet_questions.pdf for questions and
\* worksheet_answers.pdf for answers; every other step of handleExport saves
\* no file.
C18_ExportFileName ==
    [][event'.h = "handleExport" =>
          /\ event'.step = "start" =>
                /\ downloading' \in ExportKinds
                /\ event'.req.endpoint = "/api/export/" \o downloading'
          /\ (event'.step = "done" /\ downloading = "questions")
                => event'.saved = "worksheet_questions.pdf"
          /\ (event'.step = "done" /\ downloading = "answers")
                => event'.saved = "worksheet_answers.pdf"
          /\ event'.step = "done" => downloading \in ExportKinds
          /\ event'.step # "done" => event'.saved = ""]_vars

\* C18 witness: an export of the answers was saved.
C18_Witness ==
    /\ event.h = "handleExport" /\ event.step = "done"
    /\ event.saved = "worksheet_answers.pdf"

\* C19: no object URL created by an export is left unrevoked when the export
\* has ended.
C19_UrlsRevoked == urls = 0

\* A numeric field of the form does not hold a number.
Malformed(v) ==
    \/ v.grade \notin DigitStrings
    \/ \E f \in NumericFields : v[f].nan

\* C20: a submission in which a numeric field does not hold a number is
\* rejected with no request; the numeric fields of a generate request body
\* are the numbers the form held.
C20_MalformedRejected ==
    [][Submitted =>
          /\ Malformed(cfg) =>
                /\ event'.step = "invalid"
                /\ event'.req.endpoint = "none"
                /\ ops' = ops
          /\ event'.req.endpoint = "/api/generate" =>
                /\ event'.req.body.grade = Num(DigitValue(cfg.grade))
                /\ \A f \in NumericFields : event'.req.body[f] = cfg[f]]_vars

\* C20 witness: a form that is valid but for an empty seed input was
\* submitted and rejected.
C20_Witness ==
    /\ event.h = "handleSubmit" /\ event.step = "invalid"
    /\ cfg.seed.nan
    /\ ConfigValid(Coerce(cfg))

\* C21: loading is true in every state in which a generate, upload or
\* assemble handler is in flight.
C21_BusyWhileInFlight == InFlight > 0 => loading

\* Evaluation | null over the Problem[] answers of the backend.
Evaluations == {Null} \cup {EvaluationOf(ps) : ps \in ProblemSets}

\* C22: problems changes only in the step in which generate or assemble
\* receives its answer, and becomes that answer; pool changes only in the
\* step in which upload receives its answer, and becomes that answer;
\* examEval and poolEval change only in the step in which the evaluate call
\* of such a handler returns, and become the Evaluation returned.  So each
\* is its initial value or one whole answer of the backend.
C22_Provenance ==
    /\ [](/\ problems \in ProblemSets /\ pool \in ProblemSets
          /\ examEval \in Evaluations /\ poolEval \in Evaluations)
    /\ [][problems' # problems =>
             /\ event'.step = "primary ok"
             /\ event'.h \in {"generate", "assemble"}
             /\ problems' = event'.json]_vars
    /\ [][pool' # pool =>
             /\ event'.step = "primary ok" /\ event'.h = "upload"
             /\ pool' = event'.json]_vars
    /\ [][examEval' # examEval =>
             /\ event'.step = "done"
             /\ event'.h \in {"generate", "assemble"}
             /\ examEval' = event'.json]_vars
    /\ [][poolEval' # poolEval =>
             /\ event'.step = "done" /\ event'.h = "upload"
             /\ poolEval' = event'.json]_vars

\* C22 witness: an assemble has ended with the Evaluation it was returned
\* in examEval, over an uploaded pool with its own Evaluation.
C22_Witness ==
    /\ event.h = "assemble" /\ event.step = "done"
    /\ ~examEval.null /\ examEval = event.json
    /\ pool # <<>> /\ ~poolEval.null

\* C23: every step of handleExport leaves problems, pool, examEval,
\* poolEval, loading and the assembly inputs unchanged; every step of
\* generate, upload and assemble leaves downloading unchanged; an export can
\* start whenever downloading is "none", whatever loading is, and upload,
\* assemble and a valid submission can start whatever downloading is.
C23_GatesIndependent ==
    /\ [][event'.h = "handleExport" =>
             UNCHANGED <<data, loading, asmInputs>>]_vars
    /\ [][event'.h \in {"generate", "upload", "assemble"} =>
             UNCHANGED downloading]_vars
    /\ [](ExportsInFlight < MaxExports /\ downloading = "none"
             => ENABLED ExportStart("questions"))
    /\ [](InFlight < MaxInFlight =>
             /\ ENABLED UploadStart
             /\ PoolLoaded(pool) => ENABLED AssembleStart
             /\ (~loading /\ SchemaAccepts(cfg)) => ENABLED SubmitValid)

\* C23 witness: an export started while loading was true and a handler was
\* in flight.
C23_Witness ==
    /\ event.h = "handleExport" /\ event.step = "start"
    /\ downloading # "none"
    /\ loading /\ InFlight > 0

=============================================================================
